---- MODULE Spec2Model ----
(***************************************************************************)
(* The JSON value builder of p-json (src/p-json/src/main.rs): parse_value, *)
(* parse_array and parse_object walking a pest parse tree (Pair<Rule>) and *)
(* producing a JsonValue, an anyhow error, or a panic.                     *)
(*                                                                         *)
(* A text (&str) is a sequence of one-character strings.  A parse-tree     *)
(* node is a record [rule, str, inner]: as_rule(), as_str(), into_inner(). *)
(* The recursion is run by an explicit call stack, one frame per active    *)
(* call of parse_value / parse_array / parse_object.                       *)
(***************************************************************************)
EXTENDS Integers, Sequences, FiniteSets, TLC

\* Bounds of the input space.
MaxNumLen == 4   \* longest text of a number node drawn from NumAlphabet
MaxKids == 3     \* most elements of an array / entries of an object
MaxNest == 2     \* most wrappers put around a core tree

----------------------------------------------------------------------------
(* Texts and generic helpers *)

Take(s, n) == SubSeq(s, 1, n)
Drop(s, n) == SubSeq(s, n + 1, Len(s))

RECURSIVE SeqUpTo(_, _)
SeqUpTo(S, n) ==
  IF n = 0 THEN {<<>>}
  ELSE LET R == SeqUpTo(S, n - 1)
       IN  R \cup {Append(s, x) : s \in {r \in R : Len(r) = n - 1}, x \in S}

RECURSIVE Pow10(_)
Pow10(n) == IF n = 0 THEN 1 ELSE 10 * Pow10(n - 1)

Digits == {"0", "1", "2", "3", "4", "5", "6", "7", "8", "9"}
IsDigit(c) == c \in Digits
DigitVal(c) ==
  CASE c = "0" -> 0 [] c = "1" -> 1 [] c = "2" -> 2 [] c = "3" -> 3
    [] c = "4" -> 4 [] c = "5" -> 5 [] c = "6" -> 6 [] c = "7" -> 7
    [] c = "8" -> 8 [] c = "9" -> 9

\* to_ascii_lowercase on the letters that matter to parse_inf_nan / 'e'
Lower(c) ==
  CASE c = "N" -> "n" [] c = "A" -> "a" [] c = "I" -> "i" [] c = "F" -> "f"
    [] c = "T" -> "t" [] c = "Y" -> "y" [] c = "E" -> "e" [] OTHER -> c
LowerStr(s) == [i \in 1..Len(s) |-> Lower(s[i])]

----------------------------------------------------------------------------
(* JsonValue (main.rs 11-19) *)

Null == [tag |-> "Null"]
Bool(b) == [tag |-> "Bool", b |-> b]
Number(n) == [tag |-> "Number", n |-> n]
String(s) == [tag |-> "String", s |-> s]
Array(a) == [tag |-> "Array", a |-> a]
Object(o) == [tag |-> "Object", o |-> o]

\* f64 values: a finite decimal (-1)^neg * mant * 10^exp in lowest terms,
\* an infinity, or NaN.
Finite(neg, mant, exp) == [class |-> "finite", neg |-> neg, mant |-> mant, exp |-> exp]
Inf(neg) == [class |-> "inf", neg |-> neg, mant |-> 0, exp |-> 0]
NaN == [class |-> "nan", neg |-> FALSE, mant |-> 0, exp |-> 0]

----------------------------------------------------------------------------
(* Results *)

NoRet == [kind |-> "None"]
Ok(v) == [kind |-> "Ok", val |-> v]
Err(e) == [kind |-> "Err", err |-> e]
Panic(r) == [kind |-> "Panic", rule |-> r]

ExpectedKey == "expected key"          \* anyhow!("expected key")
ExpectedValue == "expected value"      \* anyhow!("expected value")
ParseFloatError == "ParseFloatError"   \* <f64 as FromStr>::Err
ParseBoolError == "ParseBoolError"     \* <bool as FromStr>::Err

----------------------------------------------------------------------------
(* The text conversions behind `pair.as_str().parse()?` (main.rs 63-65) *)

RECURSIVE Unescaped(_)
Unescaped(s) ==
  IF s = <<>> THEN <<>>
  ELSE IF Head(s) = "\\" /\ Len(s) >= 2 THEN <<s[2]>> \o Unescaped(Drop(s, 2))
  ELSE <<Head(s)>> \o Unescaped(Tail(s))
\* (mutant) a conversion that interprets backslash escapes
ParseStringUnescaping(s) == Ok(Unescaped(s))

\* <String as FromStr>::from_str: an infallible copy of the text.
ParseString(s) == Ok(s)

\* <bool as FromStr>::from_str: exactly "true" or "false".
ParseBool(s) ==
  IF s = <<"t", "r", "u", "e">> THEN Ok(TRUE)
  ELSE IF s = <<"f", "a", "l", "s", "e">> THEN Ok(FALSE)
  ELSE Err(ParseBoolError)

RECURSIVE DigitRun(_)
\* try_parse_digits: how many leading characters of s are digits
DigitRun(s) == IF s = <<>> \/ ~IsDigit(Head(s)) THEN 0 ELSE 1 + DigitRun(Tail(s))

RECURSIVE DigitsValue(_, _)
\* the digits of s accumulated onto acc, most significant first
DigitsValue(s, acc) ==
  IF s = <<>> THEN acc ELSE DigitsValue(Tail(s), acc * 10 + DigitVal(Head(s)))

RECURSIVE NumDigits(_)
NumDigits(m) == IF m < 10 THEN 1 ELSE 1 + NumDigits(m \div 10)

RECURSIVE Reduce(_, _, _)
\* the decimal mant * 10^exp in lowest terms (zero is mant 0, exp 0)
Reduce(neg, mant, exp) ==
  IF mant = 0 THEN Finite(neg, 0, 0)
  ELSE IF mant % 10 = 0 THEN Reduce(neg, mant \div 10, exp + 1)
  ELSE Finite(neg, mant, exp)

\* The f64 nearest to (-1)^neg * mant * 10^exp, for the short mantissas the
\* inputs hold (at most 6 digits, exactly representable to the nearest
\* double without ties between distinct decimals): beyond f64::MAX
\* (1.797e308) it is an infinity, below half the least subnormal (2.47e-324)
\* it is a zero.
ToF64(neg, mant, exp) ==
  LET magnitude == NumDigits(mant) + exp - 1
  IN  IF mant = 0 THEN Finite(neg, 0, 0)
      ELSE IF magnitude > 308 THEN Inf(neg)
      ELSE IF magnitude < -324 THEN Finite(neg, 0, 0)
      ELSE Reduce(neg, mant, exp)

\* parse_scientific: optional sign then at least one digit, up to the end
\* of the text (parse_number wants the whole text consumed).
\* [ok, exp] for the text after the 'e'.
ParseScientific(s) ==
  LET signed == s # <<>> /\ Head(s) \in {"-", "+"}
      body == IF signed THEN Tail(s) ELSE s
      n == DigitsValue(body, 0)
  IN  IF body = <<>> \/ DigitRun(body) # Len(body) THEN [ok |-> FALSE, exp |-> 0]
      ELSE [ok |-> TRUE, exp |-> IF signed /\ Head(s) = "-" THEN 0 - n ELSE n]

\* parse_inf_nan on the text after the sign, case-insensitive.
ParseInfNan(s, negative) ==
  LET l == LowerStr(s)
  IN  IF l = <<"n", "a", "n">> THEN Ok(NaN)
      ELSE IF l = <<"i", "n", "f">> \/ l = <<"i", "n", "f", "i", "n", "i", "t", "y">>
      THEN Ok(Inf(negative))
      ELSE Err(ParseFloatError)

\* (mutant) a conversion that reads the integer part only
ParseF64IntegerPart(s) ==
  LET signed == s # <<>> /\ Head(s) \in {"-", "+"}
      body == IF signed THEN Tail(s) ELSE s
      n == DigitRun(body)
  IN  IF n = 0 THEN Err(ParseFloatError)
      ELSE Ok(ToF64(signed /\ Head(s) = "-", DigitsValue(Take(body, n), 0), 0))

\* <f64 as FromStr>::from_str (core::num::dec2flt):
\*   Sign? ( 'inf' | 'infinity' | 'nan' | Number ),
\*   Number = ( Digit+ | Digit+ '.' Digit* | Digit* '.' Digit+ ) Exp?
ParseF64(s) ==
  IF s = <<>> THEN Err(ParseFloatError)
  ELSE
    LET negative == Head(s) = "-"
        body == IF Head(s) \in {"-", "+"} THEN Tail(s) ELSE s
        nInt == DigitRun(body)
        afterInt == Drop(body, nInt)
        hasDot == afterInt # <<>> /\ Head(afterInt) = "."
        nAfterDot == IF hasDot THEN DigitRun(Tail(afterInt)) ELSE 0
        afterFrac == IF hasDot THEN Drop(afterInt, 1 + nAfterDot) ELSE afterInt
        mantissa == DigitsValue(Take(body, nInt) \o
                                (IF hasDot THEN Take(Tail(afterInt), nAfterDot) ELSE <<>>), 0)
        hasExp == afterFrac # <<>> /\ Head(afterFrac) \in {"e", "E"}
        sci == IF hasExp THEN ParseScientific(Tail(afterFrac)) ELSE [ok |-> TRUE, exp |-> 0]
        isNumber == /\ nInt + nAfterDot > 0
                    /\ afterFrac = <<>> \/ hasExp
                    /\ sci.ok
    IN  IF body = <<>> THEN Err(ParseFloatError)
        ELSE IF isNumber THEN Ok(ToF64(negative, mantissa, sci.exp - nAfterDot))
        ELSE ParseInfNan(body, negative)

----------------------------------------------------------------------------
(* Parse trees (pest::iterators::Pair<Rule>) *)

Pair(rule, str, inner) == [rule |-> rule, str |-> str, inner |-> inner]

\* The rule labels parse_value has an arm for (main.rs 63-69).
HandledRules == {"chars", "number", "bool", "null", "array", "object", "value"}

RECURSIVE At(_, _)
\* the node of tree t at path p (child indexes from the root)
At(t, p) == IF p = <<>> THEN t ELSE At(t.inner[Head(p)], Tail(p))

RECURSIVE NodeCount(_)
RECURSIVE SumCounts(_, _)
SumCounts(kids, i) == IF i > Len(kids) THEN 0 ELSE NodeCount(kids[i]) + SumCounts(kids, i + 1)
NodeCount(t) == 1 + SumCounts(t.inner, 1)

RECURSIVE Height(_)
RECURSIVE MaxHeight(_, _)
MaxHeight(kids, i) ==
  IF i > Len(kids) THEN 0
  ELSE LET h == Height(kids[i]) r == MaxHeight(kids, i + 1) IN IF h > r THEN h ELSE r
\* nesting depth of t, in nodes
Height(t) == 1 + MaxHeight(t.inner, 1)

----------------------------------------------------------------------------
(* Input trees *)

tNull == <<"n", "u", "l", "l">>
tTrue == <<"t", "r", "u", "e">>
tFalse == <<"f", "a", "l", "s", "e">>
tNo == <<"n", "o">>
tA == <<"a">>
tB == <<"b">>
tOne == <<"1">>
\* the content of the string literal "h\"" : h, backslash, quote
tEscaped == <<"h", "\\", "\"">>
tQuotedA == <<"\"", "a", "\"">>

LNull == Pair("null", tNull, <<>>)
LTrue == Pair("bool", tTrue, <<>>)
LFalse == Pair("bool", tFalse, <<>>)
LBadBool == Pair("bool", tNo, <<>>)
LNum == Pair("number", tOne, <<>>)
LCharsA == Pair("chars", tA, <<>>)
LCharsB == Pair("chars", tB, <<>>)
LEscaped == Pair("chars", tEscaped, <<>>)
EmptyValue == Pair("value", <<>>, <<>>)
\* a node whose label parse_value has no arm for
Unhandled == Pair("string", tQuotedA, <<LCharsA>>)

\* the `value` node the grammar wraps around t
V(t) == Pair("value", t.str, <<t>>)

\* Elements of arrays and values of object entries: four that build to
\* distinct values, two that fail with distinct errors, one that panics.
Elems == {V(LNum), V(LCharsA), LNull, LCharsB, LBadBool, EmptyValue, Unhandled}

\* Object entries: key/value pairs over two keys, and the malformed ones:
\* no key, no value, an unhandled label on the key and on a third
\* grandchild, an entry whose own label is not `pair`.
Entries ==
  {Pair("pair", <<>>, <<k, v>>) :
      k \in {LCharsA, LCharsB}, v \in {V(LNum), LNull}}
  \cup {Pair("pair", <<>>, <<LCharsA, LBadBool>>),
        Pair("pair", <<>>, <<LCharsB, Unhandled>>),
        Pair("pair", <<>>, <<>>),
        Pair("pair", <<>>, <<LCharsA>>),
        Pair("pair", <<>>, <<Unhandled, LNull, Unhandled>>),
        Pair("array", <<>>, <<LCharsB, LCharsA>>)}

Arrays == {Pair("array", <<>>, kids) : kids \in SeqUpTo(Elems, MaxKids)}
Objects == {Pair("object", <<>>, kids) : kids \in SeqUpTo(Entries, MaxKids)}

\* Nesting: a core tree inside up to MaxNest wrappers, with an unhandled
\* node or a failing node after it, or a good element before it.
Cores ==
  {LNum, LBadBool, Unhandled, EmptyValue,
   Pair("array", <<>>, <<LNull, V(LCharsA)>>),
   Pair("object", <<>>, <<Pair("pair", <<>>, <<LCharsA, V(LNum)>>),
                          Pair("pair", <<>>, <<LCharsA, LNull>>)>>)}
Wrappers(t) ==
  {Pair("array", <<>>, <<V(LNum), t, Unhandled>>),
   Pair("array", <<>>, <<t, LBadBool>>),
   Pair("value", <<>>, <<t, Unhandled>>),
   Pair("object", <<>>, <<Pair("pair", <<>>, <<LCharsA, t, Unhandled>>),
                          Pair("pair", <<>>, <<LCharsA, LNull>>)>>)}
RECURSIVE Nested(_)
Nested(n) ==
  IF n = 0 THEN Cores
  ELSE LET S == Nested(n - 1) IN S \cup UNION {Wrappers(t) : t \in S}

\* Single nodes as roots: every leaf, leaves that carry a child, and roots
\* labelled with a rule parse_value has no arm for.
Singles ==
  {LNull, LTrue, LFalse, LBadBool, LCharsA, LEscaped, EmptyValue, Unhandled,
   V(LEscaped),
   Pair("null", tNull, <<Unhandled>>), Pair("bool", tTrue, <<Unhandled>>),
   Pair("number", tOne, <<Unhandled>>), Pair("chars", tA, <<Unhandled>>),
   Pair("json", tOne, <<V(LNum)>>), Pair("pair", <<>>, <<LCharsA, V(LNum)>>)}

\* Texts of number nodes: every text over NumAlphabet up to MaxNumLen, the
\* literals of test::pest_parse_number_should_work, and texts f64::from_str
\* reads as NaN, an infinity, or a zero by underflow.
NumAlphabet == {"-", "+", ".", "0", "1", "e", "x"}
TestNumTexts ==
  {<<"1", "2", "3", ".", "4", "5", "6">>, <<"-", "1", "2", "3", ".", "4", "5", "6">>,
   <<"0">>, <<"1", "2", "3">>, <<"-", "1", "2", "3">>}
SpecialNumTexts ==
  {<<"n", "a", "n">>, <<"N", "a", "N">>, <<"-", "n", "a", "n">>,
   <<"i", "n", "f">>, <<"-", "i", "n", "f">>,
   <<"i", "n", "f", "i", "n", "i", "t", "y">>, <<"i", "n", "f", "x">>,
   <<"1", "e", "9", "9", "9">>, <<"1", "e", "-", "9", "9", "9">>}
NumTexts == SeqUpTo(NumAlphabet, MaxNumLen) \cup TestNumTexts \cup SpecialNumTexts
Numbers == {Pair("number", s, <<>>) : s \in NumTexts}

\* ParseF64 tabulated over the texts of the number nodes, so that a step
\* of the machine looks the conversion up instead of running it again
F64FromStr == [s \in NumTexts |-> ParseF64(s)]

Inputs == Numbers \cup Singles \cup Arrays \cup Objects \cup Nested(MaxNest)

----------------------------------------------------------------------------
(* The machine *)

VARIABLES
  input,   \* the root Pair handed to parse_value
  stack,   \* the active calls, innermost last
  ret,     \* the result the innermost finished call hands to its caller
  calls,   \* history: the paths parse_value was invoked on, in order
  rets,    \* history: path -> the result parse_value returned there
  depth,   \* history: the most parse_value calls ever active at once
  steps    \* history: the number of steps taken

vars == <<input, stack, ret, calls, rets, depth, steps>>

EmptyMap == [k \in {} |-> Null]

ValueFrame(p) ==
  [fn |-> "parse_value", path |-> p, pc |-> "match", i |-> 0, vec |-> <<>>,
   map |-> EmptyMap, key |-> <<>>]
ArrayFrame(p) ==
  [fn |-> "parse_array", path |-> p, pc |-> "iter", i |-> 0, vec |-> <<>>,
   map |-> EmptyMap, key |-> <<>>]
ObjectFrame(p) ==
  [fn |-> "parse_object", path |-> p, pc |-> "iter", i |-> 0, vec |-> <<>>,
   map |-> EmptyMap, key |-> <<>>]

Top == stack[Len(stack)]
Popped == Take(stack, Len(stack) - 1)
Here == At(input, Top.path)
Running(fn, pc) == stack # <<>> /\ Top.fn = fn /\ Top.pc = pc
ValueDepth(s) == Cardinality({i \in 1..Len(s) : s[i].fn = "parse_value"})

\* `JsonValue::X(conv?)`: the error of the conversion, or its value wrapped
Lift(r, v) == IF r.kind = "Ok" THEN Ok(v) ELSE r

\* (mutant) the items collected newest first
CollectReversed(vec, v) == <<v>> \o vec

\* Vec's FromIterator: the items in iteration order
Collect(vec, v) == Append(vec, v)

\* (mutant) an insert that keeps the value already under the key
InsertKeepFirst(map, k, v) ==
  [x \in DOMAIN map \cup {k} |-> IF x \in DOMAIN map THEN map[x] ELSE v]

\* HashMap::insert: a later value replaces the earlier one under the key
Insert(map, k, v) == [x \in DOMAIN map \cup {k} |-> IF x = k THEN v ELSE map[x]]

\* parse_value returns `out`: the frame is gone, the caller sees `out`
ValueReturns(out) ==
  /\ stack' = Popped
  /\ ret' = out
  /\ rets' = (Top.path :> out) @@ rets
  /\ UNCHANGED <<input, calls, depth>>
  /\ steps' = steps + 1

\* the running call (with its frame now `frame`) calls parse_value on path p
CallValue(frame, p) ==
  /\ stack' = Append(Append(Popped, frame), ValueFrame(p))
  /\ calls' = Append(calls, p)
  /\ depth' = IF ValueDepth(stack') > depth THEN ValueDepth(stack') ELSE depth
  /\ UNCHANGED <<input, ret, rets>>
  /\ steps' = steps + 1

Init ==
  /\ input \in Inputs
  /\ stack = <<ValueFrame(<<>>)>>
  /\ ret = NoRet
  /\ calls = << <<>> >>
  /\ rets = EmptyMap
  /\ depth = 1
  /\ steps = 0

\* Rule::chars => JsonValue::String(pair.as_str().parse()?)
ValueChars ==
  /\ Running("parse_value", "match") /\ Here.rule = "chars"
  /\ LET r == ParseString(Here.str) IN ValueReturns(Lift(r, String(r.val)))

\* Rule::number => JsonValue::Number(pair.as_str().parse()?)
ValueNumber ==
  /\ Running("parse_value", "match") /\ Here.rule = "number"
  /\ LET r == F64FromStr[Here.str] IN ValueReturns(Lift(r, Number(r.val)))

\* Rule::bool => JsonValue::Bool(pair.as_str().parse()?)
ValueBool ==
  /\ Running("parse_value", "match") /\ Here.rule = "bool"
  /\ LET r == ParseBool(Here.str) IN ValueReturns(Lift(r, Bool(r.val)))

\* Rule::null => JsonValue::Null
ValueNull ==
  /\ Running("parse_value", "match") /\ Here.rule = "null"
  /\ ValueReturns(Ok(Null))

\* Rule::array => JsonValue::Array(parse_array(pair)?): the call
ValueArray ==
  /\ Running("parse_value", "match") /\ Here.rule = "array"
  /\ stack' = Append(Append(Popped, [Top EXCEPT !.pc = "wait"]), ArrayFrame(Top.path))
  /\ steps' = steps + 1
  /\ UNCHANGED <<input, ret, calls, rets, depth>>

\* Rule::object => JsonValue::Object(parse_object(pair)?): the call
ValueObject ==
  /\ Running("parse_value", "match") /\ Here.rule = "object"
  /\ stack' = Append(Append(Popped, [Top EXCEPT !.pc = "wait"]), ObjectFrame(Top.path))
  /\ steps' = steps + 1
  /\ UNCHANGED <<input, ret, calls, rets, depth>>

\* Rule::value => parse_value(pair.into_inner().next().ok_or_else(..)?)?
ValueValue ==
  /\ Running("parse_value", "match") /\ Here.rule = "value"
  /\ IF Here.inner = <<>>
     THEN ValueReturns(Err(ExpectedValue))
     ELSE CallValue([Top EXCEPT !.pc = "wait"], Top.path \o <<1>>)

\* (mutant) the unhandled rule reported as an ordinary error
ValueUnhandledAsError ==
  /\ Running("parse_value", "match") /\ Here.rule \notin HandledRules
  /\ ValueReturns(Err("unhandled rule"))

\* v => panic!("unhandled rule: {:?}", v): the process unwinds, no caller
\* sees a result
ValueUnhandled ==
  /\ Running("parse_value", "match") /\ Here.rule \notin HandledRules
  /\ stack' = <<>>
  /\ ret' = Panic(Here.rule)
  /\ steps' = steps + 1
  /\ UNCHANGED <<input, calls, rets, depth>>

\* the `?` and the wrapping in the array, object and value arms, and Ok(ret)
ValueReturn ==
  /\ Running("parse_value", "wait") /\ ret # NoRet
  /\ ValueReturns(IF ret.kind = "Err" THEN ret
                  ELSE IF Here.rule = "array" THEN Ok(Array(ret.val))
                  ELSE IF Here.rule = "object" THEN Ok(Object(ret.val))
                  ELSE ret)

\* (mutant) an iterator that yields the same child again
ArrayNextRepeat ==
  /\ Running("parse_array", "iter") /\ ret = NoRet
  /\ Top.i < Len(Here.inner)
  /\ CallValue(Top, Top.path \o <<Top.i + 1>>)

\* parse_array: the iterator yields the next child, map calls parse_value
ArrayNext ==
  /\ Running("parse_array", "iter") /\ ret = NoRet
  /\ Top.i < Len(Here.inner)
  /\ CallValue([Top EXCEPT !.i = Top.i + 1], Top.path \o <<Top.i + 1>>)

\* (mutant) collect skips a failed item and goes on
ArrayItemKeepGoing ==
  /\ Running("parse_array", "iter") /\ ret # NoRet
  /\ stack' = Append(Popped, IF ret.kind = "Ok"
                              THEN [Top EXCEPT !.vec = Collect(Top.vec, ret.val)]
                              ELSE Top)
  /\ ret' = NoRet
  /\ steps' = steps + 1
  /\ UNCHANGED <<input, calls, rets, depth>>

\* parse_array: collect takes the item, or stops at the first Err
ArrayItem ==
  /\ Running("parse_array", "iter") /\ ret # NoRet
  /\ IF ret.kind = "Ok"
     THEN /\ stack' = Append(Popped, [Top EXCEPT !.vec = Collect(Top.vec, ret.val)])
          /\ ret' = NoRet
     ELSE /\ stack' = Popped
          /\ ret' = ret
  /\ steps' = steps + 1
  /\ UNCHANGED <<input, calls, rets, depth>>

\* parse_array: the iterator is exhausted, collect returns Ok(vec)
ArrayDone ==
  /\ Running("parse_array", "iter") /\ ret = NoRet
  /\ Top.i = Len(Here.inner)
  /\ stack' = Popped
  /\ ret' = Ok(Top.vec)
  /\ steps' = steps + 1
  /\ UNCHANGED <<input, calls, rets, depth>>

\* (mutant) the closure unwraps the key and the value node: a missing one
\* panics
ObjectNextUnwrap ==
  /\ Running("parse_object", "iter") /\ ret = NoRet
  /\ Top.i < Len(Here.inner)
  /\ LET entry == Here.inner[Top.i + 1]
     IN  IF Len(entry.inner) < 2
         THEN /\ stack' = <<>>
              /\ ret' = Panic("unwrap")
              /\ steps' = steps + 1
              /\ UNCHANGED <<input, calls, rets, depth>>
         ELSE CallValue([Top EXCEPT !.i = Top.i + 1, !.key = entry.inner[1].str],
                        Top.path \o <<Top.i + 1, 2>>)

\* parse_object: the closure on the next entry: the key, then parse_value
\* on the second grandchild
ObjectNext ==
  /\ Running("parse_object", "iter") /\ ret = NoRet
  /\ Top.i < Len(Here.inner)
  /\ LET entry == Here.inner[Top.i + 1]
     IN  IF Len(entry.inner) < 2
         THEN /\ stack' = Popped
              /\ ret' = Err(IF entry.inner = <<>> THEN ExpectedKey ELSE ExpectedValue)
              /\ steps' = steps + 1
              /\ UNCHANGED <<input, calls, rets, depth>>
         ELSE CallValue([Top EXCEPT !.i = Top.i + 1, !.key = entry.inner[1].str],
                        Top.path \o <<Top.i + 1, 2>>)

\* (mutant) collect skips a failed entry and goes on
ObjectItemKeepGoing ==
  /\ Running("parse_object", "iter") /\ ret # NoRet
  /\ stack' = Append(Popped, IF ret.kind = "Ok"
                              THEN [Top EXCEPT !.map = Insert(Top.map, Top.key, ret.val)]
                              ELSE Top)
  /\ ret' = NoRet
  /\ steps' = steps + 1
  /\ UNCHANGED <<input, calls, rets, depth>>

\* parse_object: Ok((key, value)) goes into the map, or collect stops at
\* the first Err
ObjectItem ==
  /\ Running("parse_object", "iter") /\ ret # NoRet
  /\ IF ret.kind = "Ok"
     THEN /\ stack' = Append(Popped, [Top EXCEPT !.map = Insert(Top.map, Top.key, ret.val)])
          /\ ret' = NoRet
     ELSE /\ stack' = Popped
          /\ ret' = ret
  /\ steps' = steps + 1
  /\ UNCHANGED <<input, calls, rets, depth>>

\* parse_object: the iterator is exhausted, collect returns Ok(map)
ObjectDone ==
  /\ Running("parse_object", "iter") /\ ret = NoRet
  /\ Top.i = Len(Here.inner)
  /\ stack' = Popped
  /\ ret' = Ok(Top.map)
  /\ steps' = steps + 1
  /\ UNCHANGED <<input, calls, rets, depth>>

Next ==
  \/ ValueChars \/ ValueNumber \/ ValueBool \/ ValueNull
  \/ ValueArray \/ ValueObject \/ ValueValue \/ ValueUnhandled \/ ValueReturn
  \/ ArrayNext \/ ArrayItem \/ ArrayDone
  \/ ObjectNext \/ ObjectItem \/ ObjectDone

Spec == Init /\ [][Next]_vars

\* the outermost parse_value has returned or the process has panicked
Done == stack = <<>>

----------------------------------------------------------------------------
(* Properties *)

Node(p) == At(input, p)
NKids(p) == Len(Node(p).inner)
BuiltOk(p) == p \in DOMAIN rets /\ rets[p].kind = "Ok"
BuiltErr(p) == p \in DOMAIN rets /\ rets[p].kind = "Err"
\* q lies in the subtree of child i of p
IsUnder(q, p, i) == Len(q) > Len(p) /\ Take(q, Len(p)) = p /\ q[Len(p) + 1] = i
Min(S) == CHOOSE x \in S : \A y \in S : x <= y

\* C1: an array node whose children all built successfully returned
\* Array(seq), seq as long as the node has children and seq[i] the result of
\* build on child i (nothing dropped, duplicated or reordered; no children
\* gives the empty Array).
C1_ArrayKeepsChildOrder ==
  \A p \in DOMAIN rets :
    (/\ Node(p).rule = "array"
     /\ \A i \in 1..NKids(p) : BuiltOk(p \o <<i>>))
    => rets[p] = Ok(Array([i \in 1..NKids(p) |-> rets[p \o <<i>>].val]))

C1_Witness ==
  /\ Done /\ input.rule = "array" /\ Len(input.inner) >= 3
  /\ ret.kind = "Ok"
  /\ rets[<<1>>] # rets[<<2>>] /\ rets[<<2>>] # rets[<<3>>]

\* the matched text of the key node (first grandchild) of entry i of p
KeyOf(p, i) == Node(p).inner[i].inner[1].str
EntryValueBuiltOk(p, i) == Len(Node(p).inner[i].inner) >= 2 /\ BuiltOk(p \o <<i, 2>>)

\* C2: an object node whose entries all built successfully returned
\* Object(m), the keys of m being exactly the key nodes' texts and m[k] the
\* result of build on the value node of the last entry with key k.
C2_ObjectLastKeyWins ==
  \A p \in DOMAIN rets :
    (/\ Node(p).rule = "object"
     /\ \A i \in 1..NKids(p) : EntryValueBuiltOk(p, i))
    => /\ rets[p].kind = "Ok"
       /\ rets[p].val.tag = "Object"
       /\ DOMAIN rets[p].val.o = {KeyOf(p, i) : i \in 1..NKids(p)}
       /\ \A i \in 1..NKids(p) :
            (\A j \in (i + 1)..NKids(p) : KeyOf(p, j) # KeyOf(p, i))
            => rets[p].val.o[KeyOf(p, i)] = rets[p \o <<i, 2>>].val

C2_Witness ==
  /\ Done /\ input.rule = "object" /\ ret.kind = "Ok"
  /\ \E i, j \in 1..Len(input.inner) :
       /\ i < j /\ KeyOf(<<>>, i) = KeyOf(<<>>, j)
       /\ rets[<<i, 2>>] # rets[<<j, 2>>]

\* child i of the array or object p failed: an element whose build returned
\* an error, an entry without key or value, or an entry whose value's build
\* returned an error
ChildFailed(p, i) ==
  IF Node(p).rule = "array" THEN BuiltErr(p \o <<i>>)
  ELSE Len(Node(p).inner[i].inner) < 2 \/ BuiltErr(p \o <<i, 2>>)
ChildError(p, i) ==
  IF Node(p).rule = "array" THEN rets[p \o <<i>>]
  ELSE IF Node(p).inner[i].inner = <<>> THEN Err(ExpectedKey)
  ELSE IF Len(Node(p).inner[i].inner) = 1 THEN Err(ExpectedValue)
  ELSE rets[p \o <<i, 2>>]
ChildBuiltOk(p, i) ==
  IF Node(p).rule = "array" THEN BuiltOk(p \o <<i>>) ELSE EntryValueBuiltOk(p, i)

\* C3: an array or object node with a failing child returned exactly the
\* error of the first failing child, nothing under a later child was ever
\* built, and a node that returned a Value has every child built: a result
\* is a complete Value or an error, at every depth.
C3_FirstErrorPropagates ==
  \A p \in DOMAIN rets :
    Node(p).rule \in {"array", "object"} =>
      LET failed == {i \in 1..NKids(p) : ChildFailed(p, i)}
      IN  IF failed # {}
          THEN /\ rets[p] = ChildError(p, Min(failed))
               /\ rets[p].kind = "Err"
               /\ \A k \in 1..Len(calls) :
                    \A i \in (Min(failed) + 1)..NKids(p) : ~IsUnder(calls[k], p, i)
          ELSE /\ rets[p].kind = "Ok"
               /\ \A i \in 1..NKids(p) : ChildBuiltOk(p, i)

C3_Witness ==
  /\ Done /\ ret.kind = "Err"
  /\ \E p \in DOMAIN rets :
       /\ Len(p) >= 2 /\ Node(p).rule \in {"array", "object"}
       /\ ChildFailed(p, 1) /\ NKids(p) >= 2
       /\ rets[p] = ret

\* a call on path p is still active
OnStack(p) == \E k \in 1..Len(stack) : stack[k].path = p
\* p or one of its ancestors
Prefixes(p) == {Take(p, n) : n \in 0..Len(p)}

\* C4: once build is invoked on a node whose label has no arm, the next
\* step is the panic carrying that label: it ends the whole run, and neither
\* that call nor any caller above it ever returns a result.
C4_UnhandledRuleAborts ==
  \A k \in 1..Len(calls) :
    Node(calls[k]).rule \notin HandledRules =>
      \/ Running("parse_value", "match") /\ Top.path = calls[k]
      \/ /\ Done /\ ret = Panic(Node(calls[k]).rule)
         /\ k = Len(calls)
         /\ \A q \in Prefixes(calls[k]) : q \notin DOMAIN rets

C4_Witness ==
  /\ Done /\ ret.kind = "Panic"
  /\ Len(calls[Len(calls)]) >= 3
  /\ ret.rule = Node(calls[Len(calls)]).rule

IsStructureError(e) == e \in {ExpectedKey, ExpectedValue}
IsConversionError(e) == e \in {ParseFloatError, ParseBoolError}
\* the entries of the object p that lack a key or a value node
Malformed(p) == {i \in 1..NKids(p) : Len(Node(p).inner[i].inner) < 2}

\* C5: build on a `value` node without child returns the error "expected
\* value"; build on an object whose entries before the first one lacking a
\* key or a value node built successfully returns "expected key" (no
\* grandchild) or "expected value" (one grandchild) and builds nothing of
\* that entry: an ordinary error result, never a panic, never a Value.
C5_MissingChildIsError ==
  \A k \in 1..Len(calls) :
    LET p == calls[k] IN
    /\ (Node(p).rule = "value" /\ Node(p).inner = <<>>)
       => \/ Running("parse_value", "match") /\ Top.path = p
          \/ p \in DOMAIN rets /\ rets[p] = Err(ExpectedValue)
    /\ (/\ Node(p).rule = "object" /\ Malformed(p) # {}
        /\ \A j \in 1..(Min(Malformed(p)) - 1) : BuiltOk(p \o <<j, 2>>))
       => LET f == Min(Malformed(p))
          IN  /\ \/ OnStack(p)
                 \/ /\ p \in DOMAIN rets
                    /\ rets[p] = Err(IF Node(p).inner[f].inner = <<>>
                                     THEN ExpectedKey ELSE ExpectedValue)
                    /\ IsStructureError(rets[p].err)
              /\ \A n \in 1..Len(calls) : ~IsUnder(calls[n], p, f)

C5_Witness ==
  /\ Done /\ input.rule = "object" /\ Len(input.inner) >= 2
  /\ Len(input.inner[2].inner) = 1
  /\ BuiltOk(<<1, 2>>)
  /\ ret = Err(ExpectedValue)

\* The shape the grammar of spec section 6 gives a tree: json = value,
\* string = chars, value = one of the six kinds, array = values,
\* object = pairs of chars and value; leaves have no children.
RECURSIVE WellFormed(_)
WellFormed(t) ==
  CASE t.rule \in {"null", "bool", "number", "chars"} -> t.inner = <<>>
    [] t.rule = "value" ->
         /\ Len(t.inner) = 1
         /\ t.inner[1].rule \in {"null", "bool", "number", "chars", "array", "object"}
         /\ WellFormed(t.inner[1])
    [] t.rule = "array" ->
         \A i \in 1..Len(t.inner) : t.inner[i].rule = "value" /\ WellFormed(t.inner[i])
    [] t.rule = "object" ->
         \A i \in 1..Len(t.inner) :
           /\ t.inner[i].rule = "pair" /\ Len(t.inner[i].inner) = 2
           /\ t.inner[i].inner[1].rule = "chars" /\ WellFormed(t.inner[i].inner[1])
           /\ t.inner[i].inner[2].rule = "value" /\ WellFormed(t.inner[i].inner[2])
    [] t.rule = "json" ->
         Len(t.inner) = 1 /\ t.inner[1].rule = "value" /\ WellFormed(t.inner[1])
    [] t.rule = "string" ->
         Len(t.inner) = 1 /\ t.inner[1].rule = "chars" /\ WellFormed(t.inner[1])
    [] OTHER -> FALSE

IsDigits(s) == \A i \in 1..Len(s) : IsDigit(s[i])

\* A JSON number literal as spec section 6 gives it: optional '-', digits,
\* optional '.' digits.  [ok, neg, digits, frac]: the digits without the
\* point and how many of them follow it.
JsonNumber(s) ==
  LET neg == s # <<>> /\ Head(s) = "-"
      body == IF neg THEN Tail(s) ELSE s
      dots == {i \in 1..Len(body) : body[i] = "."}
      dot == IF dots = {} THEN Len(body) + 1 ELSE Min(dots)
      int == Take(body, dot - 1)
      frac == Drop(body, dot)
  IN  [ok |-> /\ int # <<>> /\ IsDigits(int) /\ IsDigits(frac)
              /\ dots # {} => frac # <<>>,
       neg |-> neg, digits |-> int \o frac, frac |-> Len(frac)]

RECURSIVE PositionalValue(_)
\* the number a digit string denotes: the sum of digit * 10^position
PositionalValue(d) ==
  IF d = <<>> THEN 0
  ELSE DigitVal(Head(d)) * Pow10(Len(d) - 1) + PositionalValue(Tail(d))

\* The texts f64::from_str accepts, as a grammar:
\*   [+-]? ( inf | infinity | nan | (D+ | D+ . D* | D* . D+) ([eE] [+-]? D+)? )
IsMantissa(d) ==
  \E n \in 0..Len(d) :
    /\ IsDigits(Take(d, n))
    /\ \/ n = Len(d) /\ n > 0
       \/ n < Len(d) /\ d[n + 1] = "." /\ IsDigits(Drop(d, n + 1)) /\ Len(d) > 1
IsExponent(e) ==
  LET g == IF e # <<>> /\ Head(e) \in {"-", "+"} THEN Tail(e) ELSE e
  IN  g # <<>> /\ IsDigits(g)
IsF64Text(s) ==
  \E a \in {0, 1} :
    /\ a <= Len(s)
    /\ a = 1 => s[1] \in {"-", "+"}
    /\ LET b == Drop(s, a)
       IN  \/ LowerStr(b) \in {<<"n", "a", "n">>, <<"i", "n", "f">>,
                               <<"i", "n", "f", "i", "n", "i", "t", "y">>}
           \/ \E m \in 1..Len(b) :
                /\ IsMantissa(Take(b, m))
                /\ \/ m = Len(b)
                   \/ b[m + 1] \in {"e", "E"} /\ IsExponent(Drop(b, m + 1))

\* C7: build on a number node whose text is a JSON number literal returns
\* Number(v), v the finite double with the literal's sign and decimal
\* value, integer-looking or not; on a text f64's conversion does not accept
\* it returns the conversion's error and no Value.
C7_NumberIsDecimalValue ==
  \A p \in DOMAIN rets :
    Node(p).rule = "number" =>
      LET lit == JsonNumber(Node(p).str)
          r == rets[p]
      IN  /\ lit.ok =>
               /\ r.kind = "Ok" /\ r.val.tag = "Number"
               /\ r.val.n.class = "finite"
               /\ r.val.n.neg = lit.neg
               /\ r.val.n.exp + lit.frac >= 0
               /\ r.val.n.mant * Pow10(r.val.n.exp + lit.frac) = PositionalValue(lit.digits)
          /\ ~IsF64Text(Node(p).str) =>
               r = Err(ParseFloatError) /\ IsConversionError(r.err)
          /\ IsF64Text(Node(p).str) => r.kind = "Ok" /\ r.val.tag = "Number"

C7_Witness ==
  /\ Done
  /\ input = Pair("number", <<"-", "1", "2", "3", ".", "4", "5", "6">>, <<>>)
  /\ ret = Ok(Number(Finite(TRUE, 123456, 0 - 3)))

\* C9: build is invoked at most once on a node, so never more often than
\* the tree has nodes; never more parse_value calls are active than the
\* tree is deep; a run takes at most 4 steps per node and, until build has
\* finished, always has a next step: it finishes.
C9_WorkBoundedByTree ==
  /\ \A i, j \in 1..Len(calls) : i < j => calls[i] # calls[j]
  /\ Len(calls) <= NodeCount(input)
  /\ ValueDepth(stack) <= depth /\ depth <= Height(input)
  /\ steps <= 4 * NodeCount(input)
  /\ ~Done => ENABLED Next

C9_Witness ==
  /\ Done /\ ret.kind = "Ok"
  /\ depth >= 4 /\ Len(calls) >= 6

\* What dispatching on node t does by itself: panic, fail, or neither.
Trouble(t) ==
  IF t.rule \notin HandledRules THEN "Panic"
  ELSE IF \/ t.rule = "bool" /\ t.str \notin {tTrue, tFalse}
          \/ t.rule = "number" /\ ~IsF64Text(t.str)
          \/ t.rule = "value" /\ t.inner = <<>>
       THEN "Err"
  ELSE "None"

RECURSIVE Events(_, _)
RECURSIVE EventsOfKids(_, _, _)
RECURSIVE EventsOfEntries(_, _, _)
\* The nodes of t (at path p) in depth-first, left-to-right order, as far
\* as build can reach them: a node build dispatches on, or an object entry
\* (which is read, not dispatched on).
Events(t, p) ==
  <<[path |-> p, dispatched |-> TRUE, trouble |-> Trouble(t)]>> \o
  (CASE t.rule = "array" -> EventsOfKids(t.inner, p, 1)
     [] t.rule = "object" -> EventsOfEntries(t.inner, p, 1)
     [] t.rule = "value" /\ t.inner # <<>> -> Events(t.inner[1], p \o <<1>>)
     [] OTHER -> <<>>)
EventsOfKids(kids, p, i) ==
  IF i > Len(kids) THEN <<>>
  ELSE Events(kids[i], p \o <<i>>) \o EventsOfKids(kids, p, i + 1)
EventsOfEntries(kids, p, i) ==
  IF i > Len(kids) THEN <<>>
  ELSE <<[path |-> p \o <<i>>, dispatched |-> FALSE,
          trouble |-> IF Len(kids[i].inner) < 2 THEN "Err" ELSE "None"]>>
       \o (IF Len(kids[i].inner) < 2 THEN <<>>
           ELSE Events(kids[i].inner[2], p \o <<i, 2>>))
       \o EventsOfEntries(kids, p, i + 1)

\* the index of the first event with trouble, 0 if there is none
FirstTrouble(ev) ==
  LET T == {k \in 1..Len(ev) : ev[k].trouble # "None"}
  IN  IF T = {} THEN 0 ELSE Min(T)
\* the paths dispatched on among the first n events, in order
RECURSIVE Dispatched(_, _)
Dispatched(ev, n) ==
  IF n = 0 THEN <<>>
  ELSE Dispatched(ev, n - 1) \o (IF ev[n].dispatched THEN <<ev[n].path>> ELSE <<>>)

\* C10: the outcome is decided by the first node, in depth-first
\* left-to-right order over the nodes build reaches, that fails or has an
\* unhandled label: an error if it fails, a panic with its label if it is
\* unhandled, a Value if there is none; build is invoked on the reachable
\* nodes up to that one, in that order, and on no other node.
C10_FirstTroubleDecides ==
  LET ev == Events(input, <<>>)
      k == FirstTrouble(ev)
      reach == Dispatched(ev, IF k = 0 THEN Len(ev) ELSE k)
  IN  /\ Len(calls) <= Len(reach) /\ calls = Take(reach, Len(calls))
      /\ Done =>
           /\ calls = reach
           /\ k = 0 => ret.kind = "Ok"
           /\ (k # 0 /\ ev[k].trouble = "Err") => ret.kind = "Err"
           /\ (k # 0 /\ ev[k].trouble = "Panic") => ret = Panic(At(input, ev[k].path).rule)

C10_Witness ==
  LET ev == Events(input, <<>>)
      k == FirstTrouble(ev)
  IN  /\ Done /\ ret.kind = "Err"
      /\ k # 0 /\ Len(ev[k].path) >= 2
      /\ \E n \in (k + 1)..Len(ev) : ev[n].trouble = "Panic"

====
